---- MODULE Spec2Model ----
(***************************************************************************)
(* Smartway analytics assistant: the LangGraph intent router of the        *)
(* backend (intent_analyzer -> conditional_router -> path nodes), the      *)
(* FastAPI route that runs it, and the chat panel / page of the frontend   *)
(* that call it (Spec, and SpecLive with fairness), with the passenger     *)
(* counts of its route page (SpecRoute) and its data table (SpecTable);    *)
(* and the LaLaLlama frontend: the proposal chat drawer (SpecChat), the    *)
(* upload page (SpecUpload) and the report page (SpecReport).              *)
(***************************************************************************)
EXTENDS Integers, Sequences, FiniteSets, TLC

VARIABLES
    graph_file,     \* the graph dataset document on disk (read-only)
    pc,             \* position of the request inside analyze / the graph
    client,         \* who calls the backend in this run: the chat panel or a direct HTTP client
    question,       \* QuestionRequest.question of that request
    st,             \* the AnalyticsState of the running graph
    decision,       \* intent_analyzer's locals intent / confidence at return
    next_node,      \* value returned by conditional_router
    exc,            \* exception raised inside analyze's try block
    llm_calls,      \* completion-service invocations per node, this request
    llm_replies,    \* response.content the service returned to each node
    ran,            \* graph nodes executed for this request, in order
    response,       \* what analyze sent back for this request
    messages,       \* RightPanel: chat messages
    input,          \* RightPanel: text box
    loading,        \* RightPanel: loading flag
    panel_req,      \* RightPanel: the fetch started by sendMessage
    highlightedEdge,\* page: highlighted edge handed to RouteFlow
    routeData,      \* page: loaded graph dataset
    pageLoading,    \* page: loading flag
    flowEdges,      \* RouteFlow: its edges state, as drawn
    enrichedEdges,  \* page: the edges with their passenger counts
    chats,          \* LaLaLlama global state: chats[proposalId]
    chatOpenFor,    \* LaLaLlama global state: ui.chatOpenFor
    chat_input,     \* ChatDrawer: its input state
    chat_sending,   \* ChatDrawer: its sending state
    chat_reqs,      \* ChatDrawer: the handleSend calls awaiting sendChatMessage
    route,          \* LaLaLlama router: the parsed location hash
    localUploads,   \* LaLaLlama global state: localUploads
    currentBatchId, \* LaLaLlama global state: currentBatchId
    state_proposals,\* LaLaLlama global state: proposals
    reports,        \* LaLaLlama global state: reports[proposalId]
    upload_loading, \* UploadPage: its loading state
    upload_progress,\* UploadPage: its progress state
    report_loading, \* ReportPage: its loading state
    report_progress,\* ReportPage: its progress state
    report_error,   \* ReportPage: its error state
    timers,         \* setInterval timers running for the mounted page
    interval,       \* the timer created by the latest load
    ticks,          \* callbacks that timer has run while its load lasted
    evaluation_reqs,\* handleEvaluationStart calls awaiting createEvaluation
    report_reqs,    \* loadReport calls awaiting getReport
    originalData,   \* TextWithTableRenderer: the rows of message.chart_data
    showFullTable,  \* TextWithTableRenderer: its showFullTable state
    searchTerm,     \* DataTable: its searchTerm state
    currentPage,    \* DataTable: its currentPage state
    sortConfig      \* DataTable: its sortConfig state

vars == <<graph_file, pc, client, question, st, decision, next_node, exc,
          llm_calls, llm_replies, ran, response, messages, input, loading, panel_req,
          highlightedEdge, routeData, pageLoading, flowEdges, enrichedEdges,
          chats, chatOpenFor, chat_input, chat_sending, chat_reqs,
          route, localUploads, currentBatchId, state_proposals, reports,
          upload_loading, upload_progress, report_loading, report_progress,
          report_error, timers, interval, ticks, evaluation_reqs,
          report_reqs, originalData, showFullTable, searchTerm, currentPage,
          sortConfig>>

backendVars == <<pc, client, question, st, decision, next_node, exc,
                 llm_calls, llm_replies, ran, response>>
panelVars == <<messages, input, loading, panel_req, highlightedEdge>>
pageVars == <<routeData, pageLoading, flowEdges, enrichedEdges>>
smartwayVars == <<graph_file, backendVars, panelVars, pageVars>>
chatVars == <<chats, chatOpenFor, chat_input, chat_sending, chat_reqs>>
uploadVars == <<upload_loading, upload_progress>>
reportVars == <<report_loading, report_progress, report_error>>
globalVars == <<localUploads, currentBatchId, state_proposals, reports>>
pagesVars == <<route, globalVars, uploadVars, reportVars, timers, interval,
               ticks, evaluation_reqs, report_reqs>>
tableVars == <<originalData, showFullTable, searchTerm, currentPage,
               sortConfig>>
notSmartway == <<chatVars, pagesVars, tableVars>>
notChat == <<smartwayVars, pagesVars, tableVars>>
notPages == <<smartwayVars, chatVars, tableVars>>
notTable == <<smartwayVars, chatVars, pagesVars>>

----------------------------------------------------------------------------
(* Bounds *)

MaxMessages == 3

\* user questions asked over all proposal chats of a run
MaxChatQuestions == 4

\* handleSend calls of the chat drawers awaiting their answer at one time
MaxPending == 2

----------------------------------------------------------------------------
(* Python / JSON values, tagged so that values of different types compare *)

Absent == [t |-> "absent", v |-> ""]
None == [t |-> "null", v |-> ""]
Str(s) == [t |-> "str", v |-> s]
Num(s) == [t |-> "num", v |-> s]
List(s) == [t |-> "list", v |-> s]
Unbound == [t |-> "unbound", v |-> ""]

\* dict.get(key) / dict.get(key, default) on a field that may be missing
dict_get(field, default) == IF field = Absent THEN default ELSE field

\* str.strip() / String.prototype.trim() on the texts used here
strip(s) ==
    CASE s = " line_chart\n" -> "line_chart"
      [] s = "table " -> "table"
      [] s = "   " -> ""
      [] s = " not json " -> "not json"
      [] s = " hi " -> "hi"
      [] OTHER -> s

----------------------------------------------------------------------------
(* Graph dataset documents *)

\* a stop: parentNode is its route ("" when there is none), action and
\* count are data.action ("board" for the boarding label, "alight" for the
\* alighting label) and data.count
StopNode(id, parentNode, action, count, label) ==
    [id |-> id, type |-> "stop", label |-> label,
     parentNode |-> parentNode, action |-> action, count |-> count]

GroupNode(id, label) ==
    [id |-> id, type |-> "group", label |-> label,
     parentNode |-> "", action |-> "", count |-> 0]

Node(id, label) == StopNode(id, "route", "board", 1, label)
Edge(id, s, t, label) == [id |-> id, source |-> s, target |-> t, label |-> label]

GraphOk ==
    [readable |-> TRUE,
     nodes |-> <<Node("n1", "A"), Node("n2", "B"), Node("n3", "C")>>,
     edges |-> <<Edge("e1", "n1", "n2", "3"), Edge("e2", "n2", "n3", "5")>>]

GraphDangling ==
    [readable |-> TRUE,
     nodes |-> <<Node("n1", "A"), Node("n2", "B")>>,
     edges |-> <<Edge("e1", "n1", "n2", "3"), Edge("e2", "n2", "n9", "5")>>]

GraphUnreadable == [readable |-> FALSE, nodes |-> <<>>, edges |-> <<>>]

GraphFiles == {GraphOk, GraphDangling, GraphUnreadable}

\* route datasets: two routes, the stops listed in any order, each stop
\* boarding, alighting or neither, with a count of its own
RouteStopIds == <<"a::1", "a::2", "a::10", "b::1", "b::2">>
RouteStopCount == <<1, 2, 4, 8, 16>>
RouteActions == {"board", "alight", "pass"}

RouteEdges ==
    <<Edge("x1", "a::1", "a::10", ""), Edge("e1", "a::1", "a::2", ""),
      Edge("e2", "a::2", "a::10", ""), Edge("e3", "b::1", "b::2", ""),
      Edge("x2", "a::10", "b::1", ""), Edge("e4", "a::1", "a::2", "")>>

RouteGraphFiles ==
    {[readable |-> TRUE,
      nodes |-> <<GroupNode("a", "A"), GroupNode("b", "B")>> \o
                [i \in 1..Len(RouteStopIds) |->
                    StopNode(RouteStopIds[order[i]],
                             IF order[i] <= 3 THEN "a" ELSE "b",
                             action[order[i]], RouteStopCount[order[i]], "")],
      edges |-> RouteEdges] :
        order \in {f \in [1..Len(RouteStopIds) -> 1..Len(RouteStopIds)] :
                      \A i, j \in DOMAIN f : f[i] = f[j] => i = j},
        action \in [1..Len(RouteStopIds) -> RouteActions]}

Range(s) == {s[i] : i \in DOMAIN s}

\* parseInt(id.split('::')[1] || '0') on the ids used here
stop_number(id) ==
    CASE id = "a::1" -> 1
      [] id = "a::2" -> 2
      [] id = "a::10" -> 10
      [] id = "b::1" -> 1
      [] id = "b::2" -> 2
      [] OTHER -> 0

\* routeGroups: the routes in the order their first stop is listed
RECURSIVE routeGroups(_)
routeGroups(nodes) ==
    IF nodes = <<>> THEN <<>>
    ELSE LET rest == routeGroups(SubSeq(nodes, 1, Len(nodes) - 1))
             node == nodes[Len(nodes)]
         IN  IF node.parentNode = "" \/ node.parentNode \in Range(rest)
             THEN rest
             ELSE Append(rest, node.parentNode)

\* routeNodes left in the order they are listed
sortedNodes_unsorted(routeNodes) == routeNodes

\* routeNodes.sort((a, b) => aNum - bNum): a stable sort
RECURSIVE sortedNodes(_)
sortedNodes(routeNodes) ==
    IF routeNodes = <<>> THEN <<>>
    ELSE LET rest == sortedNodes(SubSeq(routeNodes, 1, Len(routeNodes) - 1))
             node == routeNodes[Len(routeNodes)]
             before == SelectSeq(rest, LAMBDA n :
                          stop_number(n.id) <= stop_number(node.id))
             after == SelectSeq(rest, LAMBDA n :
                          stop_number(n.id) > stop_number(node.id))
         IN  before \o <<node>> \o after

\* the sortedNodes.forEach of one route, from position index on
RECURSIVE route_forEach(_, _, _, _)
route_forEach(sorted, index, currentPassengers, edges) ==
    IF index > Len(sorted) THEN <<>>
    ELSE LET node == sorted[index]
             total == CASE node.action = "board" -> currentPassengers + node.count
                        [] node.action = "alight" -> currentPassengers - node.count
                        [] OTHER -> currentPassengers
             found == IF index < Len(sorted)
                      THEN {i \in DOMAIN edges :
                              /\ edges[i].source = node.id
                              /\ edges[i].target = sorted[index + 1].id}
                      ELSE {}
             pushed == IF found = {} THEN <<>>
                       ELSE LET i == CHOOSE i \in found : \A j \in found : i <= j
                            IN  <<[id |-> edges[i].id,
                                   source |-> edges[i].source,
                                   target |-> edges[i].target,
                                   currentPassengers |-> total,
                                   label |-> ToString(total)]>>
         IN  pushed \o route_forEach(sorted, index + 1, total, edges)

\* the routeGroups.forEach over the routes from position r on
RECURSIVE routeGroups_forEach(_, _, _, _)
routeGroups_forEach(routes, r, nodes, edges) ==
    IF r > Len(routes) THEN <<>>
    ELSE LET routeNodes == SelectSeq(nodes, LAMBDA n : n.parentNode = routes[r])
         IN  route_forEach(sortedNodes(routeNodes), 1, 0, edges)
             \o routeGroups_forEach(routes, r + 1, nodes, edges)

calculateCurrentPassengers(nodes, edges) ==
    routeGroups_forEach(routeGroups(nodes), 1, nodes, edges)

validateNodeEdges(data) ==
    LET nodeIds == {n.id : n \in Range(data.nodes)} IN
    \A e \in Range(data.edges) : e.source \in nodeIds /\ e.target \in nodeIds

----------------------------------------------------------------------------
(* Completion-service replies, as texts, and json.loads on them *)

LLM_ERROR == "<llm raises>"

IntentDoc(kind, intent, confidence, reason) ==
    [t |-> kind, intent |-> intent, confidence |-> confidence, reason |-> reason]

IntentReplies ==
    {"not json",
     " not json ",
     "[]",
     "{}",
     "{\"intent\": \"find_highlight\", \"confidence\": 0.9, \"reason\": \"r\"}",
     "{\"intent\": \"analysis\", \"confidence\": 0.8, \"reason\": \"r\"}",
     "{\"intent\": \"fallback\", \"confidence\": 0.5, \"reason\": \"r\"}",
     "{\"intent\": \"greeting\", \"confidence\": 0.9, \"reason\": \"r\"}",
     "{\"intent\": \"analysis\", \"confidence\": \"high\"}",
     "{\"intent\": null, \"confidence\": 0.5}",
     "{\"intent\": [\"analysis\"], \"confidence\": 0.5}"}

json_loads_intent(text) ==
    CASE text = "[]" ->
           [ok |-> TRUE, val |-> IntentDoc("list", Absent, Absent, Absent)]
      [] text = "{}" ->
           [ok |-> TRUE, val |-> IntentDoc("obj", Absent, Absent, Absent)]
      [] text = "{\"intent\": \"find_highlight\", \"confidence\": 0.9, \"reason\": \"r\"}" ->
           [ok |-> TRUE, val |-> IntentDoc("obj", Str("find_highlight"), Num("0.9"), Str("r"))]
      [] text = "{\"intent\": \"analysis\", \"confidence\": 0.8, \"reason\": \"r\"}" ->
           [ok |-> TRUE, val |-> IntentDoc("obj", Str("analysis"), Num("0.8"), Str("r"))]
      [] text = "{\"intent\": \"fallback\", \"confidence\": 0.5, \"reason\": \"r\"}" ->
           [ok |-> TRUE, val |-> IntentDoc("obj", Str("fallback"), Num("0.5"), Str("r"))]
      [] text = "{\"intent\": \"greeting\", \"confidence\": 0.9, \"reason\": \"r\"}" ->
           [ok |-> TRUE, val |-> IntentDoc("obj", Str("greeting"), Num("0.9"), Str("r"))]
      [] text = "{\"intent\": \"analysis\", \"confidence\": \"high\"}" ->
           [ok |-> TRUE, val |-> IntentDoc("obj", Str("analysis"), Str("high"), Absent)]
      [] text = "{\"intent\": null, \"confidence\": 0.5}" ->
           [ok |-> TRUE, val |-> IntentDoc("obj", None, Num("0.5"), Absent)]
      [] text = "{\"intent\": [\"analysis\"], \"confidence\": 0.5}" ->
           [ok |-> TRUE, val |-> IntentDoc("obj", List("analysis"), Num("0.5"), Absent)]
      [] OTHER ->
           [ok |-> FALSE, val |-> IntentDoc("none", Absent, Absent, Absent)]


\* select_edge replies
HAbsent == [t |-> "absent", id |-> "", source |-> "", target |-> ""]
HNull == [t |-> "null", id |-> "", source |-> "", target |-> ""]
HObj(id, s, t) == [t |-> "obj", id |-> id, source |-> s, target |-> t]

SelectDoc(kind, highlight, reason) ==
    [t |-> kind, highlight |-> highlight, reason |-> reason]

SelectReplies ==
    {"not json",
     "[]",
     "{\"reason\": \"r\"}",
     "{\"highlight\": null, \"reason\": \"no match\"}",
     "{\"highlight\": {\"id\": \"e1\", \"source\": \"n1\", \"target\": \"n2\"}, \"reason\": \"r\"}",
     "{\"highlight\": {\"id\": \"e2\", \"source\": \"n2\", \"target\": \"n3\"}, \"reason\": \"r\"}",
     "{\"highlight\": {\"id\": \"e99\", \"source\": \"n1\", \"target\": \"n3\"}, \"reason\": \"r\"}",
     "{\"highlight\": {\"id\": \"e1\", \"source\": \"n1\", \"target\": \"n2\"}}"}

json_loads_select(text) ==
    CASE text = "[]" ->
           [ok |-> TRUE, val |-> SelectDoc("list", HAbsent, Absent)]
      [] text = "{\"reason\": \"r\"}" ->
           [ok |-> TRUE, val |-> SelectDoc("obj", HAbsent, Str("r"))]
      [] text = "{\"highlight\": null, \"reason\": \"no match\"}" ->
           [ok |-> TRUE, val |-> SelectDoc("obj", HNull, Str("no match"))]
      [] text = "{\"highlight\": {\"id\": \"e1\", \"source\": \"n1\", \"target\": \"n2\"}, \"reason\": \"r\"}" ->
           [ok |-> TRUE, val |-> SelectDoc("obj", HObj("e1", "n1", "n2"), Str("r"))]
      [] text = "{\"highlight\": {\"id\": \"e2\", \"source\": \"n2\", \"target\": \"n3\"}, \"reason\": \"r\"}" ->
           [ok |-> TRUE, val |-> SelectDoc("obj", HObj("e2", "n2", "n3"), Str("r"))]
      [] text = "{\"highlight\": {\"id\": \"e99\", \"source\": \"n1\", \"target\": \"n3\"}, \"reason\": \"r\"}" ->
           [ok |-> TRUE, val |-> SelectDoc("obj", HObj("e99", "n1", "n3"), Str("r"))]
      [] text = "{\"highlight\": {\"id\": \"e1\", \"source\": \"n1\", \"target\": \"n2\"}}" ->
           [ok |-> TRUE, val |-> SelectDoc("obj", HObj("e1", "n1", "n2"), Absent)]
      [] OTHER ->
           [ok |-> FALSE, val |-> SelectDoc("none", HAbsent, Absent)]

\* chart_type_selector replies
ChartReplies ==
    {"line_chart", "bar_chart", "table", "text_summary",
     " line_chart\n", "table ", "pie_chart"}

\* generate_analytic replies
CAbsent == [t |-> "absent", keys |-> {}]
CNull == [t |-> "null", keys |-> {}]
CObj(keys) == [t |-> "obj", keys |-> keys]
CList == [t |-> "list", keys |-> {}]

GenerateDoc(kind, chart_data, reason) ==
    [t |-> kind, chart_data |-> chart_data, reason |-> reason]

GenerateReplies ==
    {"not json",
     "Here is the JSON: {\"chart_data\": null, \"reason\": \"r\"}",
     "{\"reason\": \"r\"}",
     "{\"chart_data\": null, \"reason\": \"r\"}",
     "{\"chart_data\": {\"labels\": [\"a\"], \"datasets\": [{\"data\": [1]}]}, \"reason\": \"r\"}",
     "{\"chart_data\": {\"labels\": [\"a\"]}, \"reason\": \"r\"}",
     "{\"chart_data\": {\"columns\": [\"c\"], \"rows\": [[1]]}, \"reason\": \"r\"}",
     "{\"chart_data\": [1, 2], \"reason\": \"r\"}"}

json_loads_generate(text) ==
    CASE text = "{\"reason\": \"r\"}" ->
           [ok |-> TRUE, val |-> GenerateDoc("obj", CAbsent, Str("r"))]
      [] text = "{\"chart_data\": null, \"reason\": \"r\"}" ->
           [ok |-> TRUE, val |-> GenerateDoc("obj", CNull, Str("r"))]
      [] text = "{\"chart_data\": {\"labels\": [\"a\"], \"datasets\": [{\"data\": [1]}]}, \"reason\": \"r\"}" ->
           [ok |-> TRUE, val |-> GenerateDoc("obj", CObj({"labels", "datasets"}), Str("r"))]
      [] text = "{\"chart_data\": {\"labels\": [\"a\"]}, \"reason\": \"r\"}" ->
           [ok |-> TRUE, val |-> GenerateDoc("obj", CObj({"labels"}), Str("r"))]
      [] text = "{\"chart_data\": {\"columns\": [\"c\"], \"rows\": [[1]]}, \"reason\": \"r\"}" ->
           [ok |-> TRUE, val |-> GenerateDoc("obj", CObj({"columns", "rows"}), Str("r"))]
      [] text = "{\"chart_data\": [1, 2], \"reason\": \"r\"}" ->
           [ok |-> TRUE, val |-> GenerateDoc("obj", CList, Str("r"))]
      [] OTHER ->
           [ok |-> FALSE, val |-> GenerateDoc("none", CAbsent, Absent)]

----------------------------------------------------------------------------
(* The LangGraph state and the nodes as functions of it *)

GAbsent == [t |-> "absent", nodes |-> <<>>, edges |-> <<>>]
GError == [t |-> "error", nodes |-> <<>>, edges |-> <<>>]
GData(nodes, edges) == [t |-> "data", nodes |-> nodes, edges |-> edges]

IntentLabels == {"find_highlight", "analysis", "fallback"}
PathIds == {"get_graph_data", "get_bus_data", "fallback_response"}
ChartTypes == {"line_chart", "bar_chart", "table", "text_summary"}

fallback_message == "sorry, the question was not understood; try one of the examples"

initial_state ==
    [messages |-> <<"human">>,
     intent_type |-> Absent,
     graph_data |-> GAbsent,
     highlight_edge |-> HAbsent,
     transport_data |-> Absent,
     commute_allowance_data |-> Absent,
     chart_type |-> Absent,
     chart_data |-> CAbsent,
     analysis_result |-> Absent]

\* intent_analyzer whose except clause does not match the decode error
intent_analyzer_parse_uncaught(content) ==
    LET parsed == json_loads_intent(strip(content)) IN
    IF ~parsed.ok
    THEN [exc |-> "JSONDecodeError", intent |-> Unbound, confidence |-> Unbound]
    ELSE IF parsed.val.t # "obj"
    THEN [exc |-> "AttributeError", intent |-> Unbound, confidence |-> Unbound]
    ELSE LET intent == dict_get(parsed.val.intent, Str("fallback"))
             confidence == dict_get(parsed.val.confidence, Num("0.0"))
         IN  [exc |-> CASE confidence.t = "num" -> ""
                        [] confidence.t = "str" -> "ValueError"
                        [] OTHER -> "TypeError",
              intent |-> intent, confidence |-> confidence]

\* the try / except of intent_analyzer: its locals when it returns or raises
intent_analyzer_parse(content) ==
    LET parsed == json_loads_intent(strip(content)) IN
    IF ~parsed.ok
    THEN [exc |-> "", intent |-> Str("fallback"), confidence |-> Unbound]
    ELSE IF parsed.val.t # "obj"
    THEN [exc |-> "AttributeError", intent |-> Unbound, confidence |-> Unbound]
    ELSE LET intent == dict_get(parsed.val.intent, Str("fallback"))
             confidence == dict_get(parsed.val.confidence, Num("0.0"))
         IN  [exc |-> CASE confidence.t = "num" -> ""
                        [] confidence.t = "str" -> "ValueError"
                        [] OTHER -> "TypeError",
              intent |-> intent, confidence |-> confidence]

route_map ==
    [k \in IntentLabels |->
        CASE k = "find_highlight" -> "get_graph_data"
          [] k = "analysis" -> "get_bus_data"
          [] k = "fallback" -> "fallback_response"]

Hashable(x) == x.t \notin {"list", "dict"}

\* route_map.get(intent): the lookup without its default
route_map_get_nodefault(intent) ==
    IF intent.t = "str" /\ intent.v \in DOMAIN route_map
    THEN route_map[intent.v]
    ELSE "None"

\* route_map.get(intent, "fallback_response")
route_map_get(intent) ==
    IF intent.t = "str" /\ intent.v \in DOMAIN route_map
    THEN route_map[intent.v]
    ELSE "fallback_response"

conditional_router(state) ==
    LET intent == dict_get(state.intent_type, Str("fallback")) IN
    IF Hashable(intent)
    THEN [exc |-> "", next |-> route_map_get(intent)]
    ELSE [exc |-> "TypeError", next |-> ""]

\* the path map of add_conditional_edges and the fixed edges of the graph
path_map == [k \in PathIds |-> k]

\* the fixed edges with get_graph_data wired to the analysis path
graph_edges_crossed ==
    [n \in {"get_graph_data", "select_edge", "get_bus_data",
            "chart_type_selector", "generate_analytic", "fallback_response"} |->
        CASE n = "get_graph_data" -> "chart_type_selector"
          [] n = "select_edge" -> "END"
          [] n = "get_bus_data" -> "chart_type_selector"
          [] n = "chart_type_selector" -> "generate_analytic"
          [] n = "generate_analytic" -> "END"
          [] n = "fallback_response" -> "END"]

graph_edges ==
    [n \in {"get_graph_data", "select_edge", "get_bus_data",
            "chart_type_selector", "generate_analytic", "fallback_response"} |->
        CASE n = "get_graph_data" -> "select_edge"
          [] n = "select_edge" -> "END"
          [] n = "get_bus_data" -> "chart_type_selector"
          [] n = "chart_type_selector" -> "generate_analytic"
          [] n = "generate_analytic" -> "END"
          [] n = "fallback_response" -> "END"]


----------------------------------------------------------------------------
(* The HTTP route and what it returns *)

Questions == {"", "   ", "busiest route?", "monthly cost trend"}

NoResponse ==
    [status |-> 0, intent_type |-> "", highlight_edge |-> HNull,
     chart_data |-> CNull, analysis_result |-> None, chart_type |-> None]

Http500 == [NoResponse EXCEPT !.status = 500]

\* Optional[...] fields: a missing key reads as None
OptH(h) == IF h.t = "absent" THEN HNull ELSE h
OptC(c) == IF c.t = "absent" THEN CNull ELSE c
OptV(x) == IF x.t = "absent" THEN None ELSE x

\* AnalyticsResponse(...) built from the final graph state
AnalyticsResponse(result) ==
    LET intent_type == dict_get(result.intent_type, Str("fallback"))
        highlight_edge == OptH(result.highlight_edge)
        chart_data == OptC(result.chart_data)
        analysis_result == OptV(result.analysis_result)
        chart_type == OptV(result.chart_type)
        valid == /\ intent_type.t = "str"
                 /\ highlight_edge.t \in {"null", "obj"}
                 /\ chart_data.t \in {"null", "obj"}
                 /\ analysis_result.t \in {"null", "str"}
                 /\ chart_type.t \in {"null", "str"}
    IN  IF valid
        THEN [exc |-> "",
              val |-> [status |-> 200, intent_type |-> intent_type.v,
                       highlight_edge |-> highlight_edge,
                       chart_data |-> chart_data,
                       analysis_result |-> analysis_result,
                       chart_type |-> chart_type]]
        ELSE [exc |-> "ValidationError", val |-> NoResponse]

NoCalls ==
    [intent_analyzer |-> 0, select_edge |-> 0,
     chart_type_selector |-> 0, generate_analytic |-> 0]

NoReplies ==
    [intent_analyzer |-> "", select_edge |-> "",
     chart_type_selector |-> "", generate_analytic |-> ""]

NoDecision == [intent |-> Unbound, confidence |-> Unbound]

NoRequest == [state |-> "none", question |-> ""]

\* analyze, up to the start of analytics_graph.invoke(initial_state)
analyze(q, c) ==
    /\ pc = "idle"
    /\ c = client
    /\ IF c = "panel"
       THEN /\ panel_req.state = "sent"
            /\ q = panel_req.question
            /\ panel_req' = [panel_req EXCEPT !.state = "accepted"]
       ELSE UNCHANGED panel_req
    /\ UNCHANGED client
    /\ question' = q
    /\ st' = initial_state
    /\ decision' = NoDecision
    /\ next_node' = ""
    /\ exc' = ""
    /\ llm_calls' = NoCalls
    /\ llm_replies' = NoReplies
    /\ ran' = <<>>
    /\ response' = NoResponse
    /\ pc' = "intent_analyzer"
    /\ UNCHANGED <<graph_file, messages, input, loading, highlightedEdge>>
    /\ UNCHANGED pageVars
    /\ UNCHANGED notSmartway

Raise(e) == pc' = "raised" /\ exc' = e

intent_analyzer ==
    /\ pc = "intent_analyzer"
    /\ ran' = Append(ran, "intent_analyzer")
    /\ llm_calls' = [llm_calls EXCEPT !.intent_analyzer = @ + 1]
    /\ \E reply \in IntentReplies \cup {LLM_ERROR} :
         /\ llm_replies' = [llm_replies EXCEPT !.intent_analyzer = reply]
         /\ IF reply = LLM_ERROR
            THEN /\ Raise("TimeoutError")
                 /\ UNCHANGED <<st, decision>>
            ELSE LET r == intent_analyzer_parse(reply) IN
                 /\ decision' = [intent |-> r.intent, confidence |-> r.confidence]
                 /\ IF r.exc # ""
                    THEN Raise(r.exc) /\ UNCHANGED st
                    ELSE /\ st' = [st EXCEPT !.intent_type = r.intent]
                         /\ pc' = "conditional_router"
                         /\ UNCHANGED exc
    /\ UNCHANGED <<graph_file, client, question, next_node, response>>
    /\ UNCHANGED panelVars
    /\ UNCHANGED pageVars
    /\ UNCHANGED notSmartway

\* the conditional edge after intent_analyzer
add_conditional_edges ==
    /\ pc = "conditional_router"
    /\ LET r == conditional_router(st) IN
       IF r.exc # ""
       THEN Raise(r.exc) /\ UNCHANGED next_node
       ELSE /\ next_node' = r.next
            /\ IF r.next \in DOMAIN path_map
               THEN pc' = path_map[r.next] /\ UNCHANGED exc
               ELSE Raise("KeyError")
    /\ UNCHANGED <<graph_file, client, question, st, decision, llm_calls, llm_replies,
                   ran, response>>
    /\ UNCHANGED panelVars
    /\ UNCHANGED pageVars
    /\ UNCHANGED notSmartway

get_graph_data ==
    /\ pc = "get_graph_data"
    /\ ran' = Append(ran, "get_graph_data")
    /\ st' = [st EXCEPT !.graph_data =
                 IF graph_file.readable
                 THEN GData(graph_file.nodes, graph_file.edges)
                 ELSE GError]
    /\ pc' = graph_edges["get_graph_data"]
    /\ UNCHANGED <<graph_file, client, question, decision, next_node, exc,
                   llm_calls, llm_replies, response>>
    /\ UNCHANGED panelVars
    /\ UNCHANGED pageVars
    /\ UNCHANGED notSmartway

select_edge ==
    /\ pc = "select_edge"
    /\ ran' = Append(ran, "select_edge")
    /\ llm_calls' = [llm_calls EXCEPT !.select_edge = @ + 1]
    /\ \E reply \in SelectReplies \cup {LLM_ERROR} :
         /\ llm_replies' = [llm_replies EXCEPT !.select_edge = reply]
         /\ IF reply = LLM_ERROR
            THEN Raise("TimeoutError") /\ UNCHANGED st
            ELSE LET parsed == json_loads_select(reply)
                     result == parsed.val
                 IN  CASE ~parsed.ok -> Raise("JSONDecodeError") /\ UNCHANGED st
                       [] parsed.ok /\ result.t # "obj" ->
                            Raise("TypeError") /\ UNCHANGED st
                       [] parsed.ok /\ result.t = "obj"
                            /\ (result.highlight.t = "absent" \/ result.reason = Absent) ->
                            Raise("KeyError") /\ UNCHANGED st
                       [] OTHER ->
                            /\ st' = [st EXCEPT !.highlight_edge = result.highlight,
                                                !.analysis_result = result.reason,
                                                !.messages = Append(@, "ai")]
                            /\ pc' = graph_edges["select_edge"]
                            /\ UNCHANGED exc
    /\ UNCHANGED <<graph_file, client, question, decision, next_node, response>>
    /\ UNCHANGED panelVars
    /\ UNCHANGED pageVars
    /\ UNCHANGED notSmartway

get_bus_data ==
    /\ pc = "get_bus_data"
    /\ ran' = Append(ran, "get_bus_data")
    /\ \E readable \in BOOLEAN :
         st' = [st EXCEPT
                  !.transport_data = IF readable THEN Str("[records]") ELSE Str("[]"),
                  !.commute_allowance_data = IF readable THEN Str("[records]") ELSE Str("[]")]
    /\ pc' = graph_edges["get_bus_data"]
    /\ UNCHANGED <<graph_file, client, question, decision, next_node, exc,
                   llm_calls, llm_replies, response>>
    /\ UNCHANGED panelVars
    /\ UNCHANGED pageVars
    /\ UNCHANGED notSmartway

chart_type_selector ==
    /\ pc = "chart_type_selector"
    /\ ran' = Append(ran, "chart_type_selector")
    /\ llm_calls' = [llm_calls EXCEPT !.chart_type_selector = @ + 1]
    /\ \E reply \in ChartReplies \cup {LLM_ERROR} :
         /\ llm_replies' = [llm_replies EXCEPT !.chart_type_selector = reply]
         /\ IF reply = LLM_ERROR
            THEN Raise("TimeoutError") /\ UNCHANGED st
            ELSE /\ st' = [st EXCEPT !.chart_type = Str(strip(reply)),
                                     !.messages = Append(@, "ai")]
                 /\ pc' = graph_edges["chart_type_selector"]
                 /\ UNCHANGED exc
    /\ UNCHANGED <<graph_file, client, question, decision, next_node, response>>
    /\ UNCHANGED panelVars
    /\ UNCHANGED pageVars
    /\ UNCHANGED notSmartway

\* the keys of output_formats
output_formats == ChartTypes

\* the fields of chart_data that output_formats[chart_type] shows
output_format_keys(chart_type) ==
    CASE chart_type = "line_chart" -> {"labels", "datasets"}
      [] chart_type = "bar_chart" -> {"labels", "datasets"}
      [] chart_type = "table" -> {"columns", "rows"}
      [] OTHER -> {}

generate_analytic ==
    /\ pc = "generate_analytic"
    /\ ran' = Append(ran, "generate_analytic")
    /\ LET chart_type == dict_get(st.chart_type, Str("text_summary")) IN
       IF chart_type.v \notin output_formats
       THEN Raise("KeyError") /\ UNCHANGED <<st, llm_calls, llm_replies>>
       ELSE
         /\ llm_calls' = [llm_calls EXCEPT !.generate_analytic = @ + 1]
         /\ \E reply \in GenerateReplies \cup {LLM_ERROR} :
              /\ llm_replies' = [llm_replies EXCEPT !.generate_analytic = reply]
              /\ IF reply = LLM_ERROR
                 THEN Raise("TimeoutError") /\ UNCHANGED st
                 ELSE LET parsed == json_loads_generate(reply)
                          result == parsed.val
                      IN  CASE ~parsed.ok -> Raise("JSONDecodeError") /\ UNCHANGED st
                            [] parsed.ok /\ (result.chart_data.t = "absent"
                                             \/ result.reason = Absent) ->
                                 Raise("KeyError") /\ UNCHANGED st
                            [] OTHER ->
                                 /\ st' = [st EXCEPT !.chart_data = result.chart_data,
                                                     !.analysis_result = result.reason,
                                                     !.messages = Append(@, "ai")]
                                 /\ pc' = graph_edges["generate_analytic"]
                                 /\ UNCHANGED exc
    /\ UNCHANGED <<graph_file, client, question, decision, next_node, response>>
    /\ UNCHANGED panelVars
    /\ UNCHANGED pageVars
    /\ UNCHANGED notSmartway

fallback_response ==
    /\ pc = "fallback_response"
    /\ ran' = Append(ran, "fallback_response")
    /\ st' = [st EXCEPT !.messages = Append(@, "ai"),
                        !.analysis_result = Str(fallback_message)]
    /\ pc' = graph_edges["fallback_response"]
    /\ UNCHANGED <<graph_file, client, question, decision, next_node, exc,
                   llm_calls, llm_replies, response>>
    /\ UNCHANGED panelVars
    /\ UNCHANGED pageVars
    /\ UNCHANGED notSmartway

\* analyze, after invoke returned: build and return the response model
analyze_return ==
    /\ pc = "END"
    /\ LET r == AnalyticsResponse(st) IN
       IF r.exc # ""
       THEN Raise(r.exc) /\ UNCHANGED response
       ELSE /\ response' = r.val
            /\ pc' = "responded"
            /\ UNCHANGED exc
    /\ UNCHANGED <<graph_file, client, question, st, decision, next_node,
                   llm_calls, llm_replies, ran>>
    /\ UNCHANGED panelVars
    /\ UNCHANGED pageVars
    /\ UNCHANGED notSmartway

\* analyze's except Exception: raise HTTPException(status_code=500)
analyze_except ==
    /\ pc = "raised"
    /\ response' = Http500
    /\ pc' = "responded"
    /\ UNCHANGED <<graph_file, client, question, st, decision, next_node, exc,
                   llm_calls, llm_replies, ran>>
    /\ UNCHANGED panelVars
    /\ UNCHANGED pageVars
    /\ UNCHANGED notSmartway

\* the response has been sent: the request's state goes out of scope
RequestDone ==
    /\ pc' = "idle"
    /\ question' = ""
    /\ st' = initial_state
    /\ decision' = NoDecision
    /\ next_node' = ""
    /\ exc' = ""
    /\ llm_calls' = NoCalls
    /\ llm_replies' = NoReplies
    /\ ran' = <<>>
    /\ response' = NoResponse

\* a caller other than the chat panel reads its response
direct_client_receives ==
    /\ pc = "responded"
    /\ client = "direct"
    /\ RequestDone
    /\ UNCHANGED <<graph_file, client>>
    /\ UNCHANGED panelVars
    /\ UNCHANGED pageVars
    /\ UNCHANGED notSmartway


----------------------------------------------------------------------------
(* Frontend: the route-visualization page and its chat panel *)

RNull == [t |-> "null", nodes |-> <<>>, edges |-> <<>>]
RData(nodes, edges) == [t |-> "data", nodes |-> nodes, edges |-> edges]

Msg(role, content, chart_type, chart_data, highlight_edge, intent_type) ==
    [role |-> role, content |-> content, chart_type |-> chart_type,
     chart_data |-> chart_data, highlight_edge |-> highlight_edge,
     intent_type |-> intent_type]

UserMsg(content) == Msg("user", content, "", CAbsent, HAbsent, "")
ErrorMsg == Msg("assistant", "error: check that the backend server is running",
                "", CAbsent, HAbsent, "")

\* x || fallback on a nullable string
OrElse(x, fallback) == IF x.t = "str" /\ x.v # "" THEN x.v ELSE fallback

\* What a message is drawn as: the set of the parts shown. A narrative is
\* shown as its text, every other part by the name given here.

\* JavaScript truthiness of the chart_data / highlight_edge of a message
Truthy(x) == x.t \notin {"null", "absent"}

\* the renderHint RightPanel passes: insights [] and an empty chart_config
renderHint == [insights |-> <<>>, chart_config |-> {}]

ChartRenderer(data) == IF ~Truthy(data) THEN {} ELSE {"chart"}

TextWithLineChartRenderer(message) ==
    (IF Truthy(message.chart_data)
     THEN ChartRenderer(message.chart_data)
     ELSE {"no line chart data"})
    \cup {"Key Insights"}

TextWithBarChartRenderer(message) ==
    IF Truthy(message.chart_data)
    THEN ChartRenderer(message.chart_data) \cup {"Key Insights"}
    ELSE {"no bar chart data"}

TextWithTableRenderer(message) ==
    (IF message.chart_data.t = "list"
     THEN {"DataTable"}
     ELSE {"no data to show"})
    \cup {"Key Insights"}

DetailTextRenderer(message) == {message.content}

AnalyticsOutputRenderer(chartType, chartData, analysisResult) ==
    LET message == [content |-> analysisResult, chart_data |-> chartData] IN
    CASE chartType = "line_chart" -> TextWithLineChartRenderer(message)
      [] chartType = "bar_chart" -> TextWithBarChartRenderer(message)
      [] chartType = "table" -> TextWithTableRenderer(message)
      [] OTHER -> DetailTextRenderer(message)

\* the body of messages.map in RightPanel
messages_map(msg) ==
    IF msg.role = "user"
    THEN {msg.content}
    ELSE (IF msg.intent_type = "find_highlight" /\ Truthy(msg.highlight_edge)
          THEN {"highlighted edge", msg.content}
          ELSE {})
         \cup
         (IF msg.intent_type = "analysis" /\ msg.chart_type # ""
          THEN AnalyticsOutputRenderer(msg.chart_type, msg.chart_data, msg.content)
          ELSE {})
         \cup
         (IF msg.chart_type = "" /\ ~Truthy(msg.highlight_edge)
          THEN {msg.content}
          ELSE {})

\* the page shows the panel only once the route data is loaded
PanelRendered == ~pageLoading /\ routeData.t = "data"

\* RouteFlow: the edges between stops built from the loaded dataset
stopEdges(enriched) ==
    [i \in DOMAIN enriched |->
        [id |-> enriched[i].id, animated |-> TRUE,
         style |-> "undefined", className |-> "undefined"]]

\* RouteFlow: the effect that runs when highlightedEdge changes
highlight_effect(eds, highlighted) ==
    IF ~Truthy(highlighted) \/ highlighted.id = ""
    THEN eds
    ELSE [i \in DOMAIN eds |->
            [eds[i] EXCEPT
               !.animated = IF eds[i].id = highlighted.id THEN TRUE ELSE @,
               !.style = IF eds[i].id = highlighted.id THEN "highlight" ELSE @,
               !.className = IF eds[i].id = highlighted.id
                             THEN "highlighted-edge" ELSE "undefined"]]

\* useEffect of the page: load the graph dataset once; RouteFlow then
\* builds its edges from it
fetchData ==
    /\ pageLoading
    /\ \E fetched \in BOOLEAN :
         IF fetched /\ graph_file.readable
         THEN LET edges == calculateCurrentPassengers(graph_file.nodes,
                                                          graph_file.edges)
              IN  /\ routeData' = RData(graph_file.nodes, graph_file.edges)
                  /\ enrichedEdges' = edges
                  /\ flowEdges' = stopEdges(edges)
         ELSE UNCHANGED <<routeData, flowEdges, enrichedEdges>>
    /\ pageLoading' = FALSE
    /\ UNCHANGED graph_file
    /\ UNCHANGED backendVars
    /\ UNCHANGED panelVars
    /\ UNCHANGED notSmartway

\* onChange of the text box
setInput(text) ==
    /\ PanelRendered
    /\ input' = text
    /\ UNCHANGED <<graph_file, messages, loading, panel_req, highlightedEdge>>
    /\ UNCHANGED backendVars
    /\ UNCHANGED pageVars
    /\ UNCHANGED notSmartway

\* handleSend whose early return tests the input only
handleSend_unguarded ==
    /\ PanelRendered
    /\ client = "panel"
    /\ IF strip(input) = ""
       THEN UNCHANGED panelVars
       ELSE /\ Len(messages) < MaxMessages
            /\ messages' = Append(messages, UserMsg(input))
            /\ input' = ""
            /\ loading' = TRUE
            /\ panel_req' = [state |-> "sent", question |-> input]
            /\ UNCHANGED highlightedEdge
    /\ UNCHANGED graph_file
    /\ UNCHANGED backendVars
    /\ UNCHANGED pageVars
    /\ UNCHANGED notSmartway

\* handleSend up to the await of sendMessage(input)
handleSend ==
    /\ PanelRendered
    /\ client = "panel"
    /\ IF strip(input) = "" \/ loading
       THEN UNCHANGED panelVars
       ELSE /\ Len(messages) < MaxMessages
            /\ messages' = Append(messages, UserMsg(input))
            /\ input' = ""
            /\ loading' = TRUE
            /\ panel_req' = [state |-> "sent", question |-> input]
            /\ UNCHANGED highlightedEdge
    /\ UNCHANGED graph_file
    /\ UNCHANGED backendVars
    /\ UNCHANGED pageVars
    /\ UNCHANGED notSmartway

\* onKeyDown of the text box
Keys == {"Enter", "a"}

handleKeyDown(key) ==
    /\ PanelRendered
    /\ client = "panel"
    /\ IF key = "Enter" /\ ~loading
       THEN handleSend
       ELSE UNCHANGED vars

\* handleSend after the await, without its finally block
handleSend_resume_nofinally ==
    /\ pc = "responded"
    /\ client = "panel"
    /\ panel_req.state = "accepted"
    /\ messages' = Append(messages, ErrorMsg)
    /\ panel_req' = NoRequest
    /\ RequestDone
    /\ UNCHANGED <<graph_file, client, input, loading, highlightedEdge>>
    /\ UNCHANGED pageVars
    /\ UNCHANGED notSmartway

\* handleSend after the await: the response arrived (sendMessage throws
\* when it is not ok), then the finally block
handleSend_resume ==
    /\ pc = "responded"
    /\ client = "panel"
    /\ panel_req.state = "accepted"
    /\ IF response.status # 200
       THEN /\ messages' = Append(messages, ErrorMsg)
            /\ UNCHANGED <<highlightedEdge, flowEdges>>
       ELSE /\ IF response.intent_type = "find_highlight"
                  /\ response.highlight_edge.t = "obj"
               THEN /\ highlightedEdge' = response.highlight_edge
                    /\ flowEdges' = highlight_effect(flowEdges, response.highlight_edge)
               ELSE UNCHANGED <<highlightedEdge, flowEdges>>
            /\ messages' = Append(messages,
                 Msg("assistant",
                     OrElse(response.analysis_result, "analysis done"),
                     OrElse(response.chart_type, ""),
                     response.chart_data,
                     response.highlight_edge,
                     response.intent_type))
    /\ loading' = FALSE
    /\ panel_req' = NoRequest
    /\ RequestDone
    /\ UNCHANGED <<graph_file, client, input>>
    /\ UNCHANGED <<routeData, pageLoading, enrichedEdges>>
    /\ UNCHANGED notSmartway

\* the catch block replacing the history by the error message
handleSend_catch_replacing ==
    /\ panel_req.state = "sent"
    /\ messages' = <<ErrorMsg>>
    /\ loading' = FALSE
    /\ panel_req' = NoRequest
    /\ UNCHANGED <<graph_file, input, highlightedEdge>>
    /\ UNCHANGED backendVars
    /\ UNCHANGED pageVars
    /\ UNCHANGED notSmartway

\* handleSend after the await when fetch itself fails (server not reachable)
handleSend_catch ==
    /\ panel_req.state = "sent"
    /\ messages' = Append(messages, ErrorMsg)
    /\ loading' = FALSE
    /\ panel_req' = NoRequest
    /\ UNCHANGED <<graph_file, input, highlightedEdge>>
    /\ UNCHANGED backendVars
    /\ UNCHANGED pageVars
    /\ UNCHANGED notSmartway

----------------------------------------------------------------------------
(* LaLaLlama: the proposal chats of the global state and the ChatDrawer *)

Proposals == {"p-abc", "p-def"}
NoProposal == "null"

ChatInputs == {"", "   ", " hi "}

chat_send_abc == "chat.send-p-abc.json"
chat_send_def == "chat.send-p-def.json"
chat_send_ghi == "chat.send-p-ghi.json"
chat_send_failed == "sorry, sending the message failed"

\* the answer sendChatMessage resolves with, by the question count it is given
sendChatMessage(userQuestionCount) ==
    CASE userQuestionCount = 0 -> chat_send_abc
      [] userQuestionCount = 1 -> chat_send_def
      [] OTHER -> chat_send_ghi

\* useGlobalState: addChatMessage
addChatMessage(state_chats, proposalId, message) ==
    [state_chats EXCEPT ![proposalId] = Append(@, message)]

\* messages.length in place of the filtered count
userQuestionCount_unfiltered(chat_messages) == Len(chat_messages)

\* messages.filter(msg => msg.role === 'user').length
userQuestionCount(chat_messages) ==
    Cardinality({i \in DOMAIN chat_messages : chat_messages[i].role = "user"})

\* useGlobalState: openChat; App mounts the drawer when none is shown
openChat(proposalId) ==
    /\ chatOpenFor' = proposalId
    /\ UNCHANGED <<chats, chat_input, chat_sending, chat_reqs>>
    /\ UNCHANGED notChat

\* useGlobalState: closeChat; App unmounts the drawer, whose input and
\* sending states are gone and whose pending calls belong to no drawer
closeChat ==
    /\ chatOpenFor # NoProposal
    /\ chatOpenFor' = NoProposal
    /\ chat_input' = ""
    /\ chat_sending' = FALSE
    /\ chat_reqs' = {[r EXCEPT !.mounted = FALSE] : r \in chat_reqs}
    /\ UNCHANGED chats
    /\ UNCHANGED notChat

\* onChange of the drawer's text box
ChatDrawer_setInput(text) ==
    /\ chatOpenFor # NoProposal
    /\ chat_input' = text
    /\ UNCHANGED <<chats, chatOpenFor, chat_sending, chat_reqs>>
    /\ UNCHANGED notChat

\* ChatDrawer handleSend up to the await of sendChatMessage
ChatDrawer_handleSend ==
    /\ chatOpenFor # NoProposal
    /\ IF strip(chat_input) = "" \/ chat_sending
       THEN UNCHANGED chatVars
       ELSE LET proposalId == chatOpenFor
                chat_messages == chats[proposalId]
                userMessage == [role |-> "user", text |-> strip(chat_input)]
            IN  /\ userQuestionCount(chats["p-abc"] \o chats["p-def"])
                     < MaxChatQuestions
                /\ Cardinality(chat_reqs) < MaxPending
                /\ chats' = addChatMessage(chats, proposalId, userMessage)
                /\ chat_input' = ""
                /\ chat_sending' = TRUE
                /\ chat_reqs' = chat_reqs \cup
                     {[proposalId |-> proposalId,
                       text |-> userMessage.text,
                       userQuestionCount |-> userQuestionCount(chat_messages),
                       at |-> Len(chat_messages) + 1,
                       mounted |-> TRUE]}
                /\ UNCHANGED chatOpenFor
    /\ UNCHANGED notChat

\* handleSend after the await, adding its message to the chat of the
\* proposal the drawer shows by then
ChatDrawer_handleSend_resume_shown(r, ok) ==
    /\ r \in chat_reqs
    /\ chats' = addChatMessage(chats,
                   IF chatOpenFor # NoProposal THEN chatOpenFor ELSE r.proposalId,
                   [role |-> "assistant",
                    text |-> IF ok
                             THEN sendChatMessage(r.userQuestionCount)
                             ELSE chat_send_failed])
    /\ chat_sending' = IF r.mounted THEN FALSE ELSE chat_sending
    /\ chat_reqs' = chat_reqs \ {r}
    /\ UNCHANGED <<chatOpenFor, chat_input>>
    /\ UNCHANGED notChat

\* ChatDrawer handleSend after the await: sendChatMessage resolved (ok) or
\* rejected, then try / catch / finally
ChatDrawer_handleSend_resume(r, ok) ==
    /\ r \in chat_reqs
    /\ chats' = addChatMessage(chats, r.proposalId,
                   [role |-> "assistant",
                    text |-> IF ok
                             THEN sendChatMessage(r.userQuestionCount)
                             ELSE chat_send_failed])
    /\ chat_sending' = IF r.mounted THEN FALSE ELSE chat_sending
    /\ chat_reqs' = chat_reqs \ {r}
    /\ UNCHANGED <<chatOpenFor, chat_input>>
    /\ UNCHANGED notChat

----------------------------------------------------------------------------
(* LaLaLlama: the upload page, the report page and the hash router *)

\* setInterval timers running at one time
MaxTimers == 2

\* createEvaluation and getReport calls awaiting their answer at one time
MaxRequests == 2

\* setProgress(prev => prev >= 100 ? 100 : prev + 5), once a second
ProgressStep == 5
ProgressFull == 100

\* parseHash: '/upload' (the default) and '/report/:proposalId'
UploadRoute == [page |-> "upload", proposalId |-> NoProposal]
ReportRoute(proposalId) == [page |-> "report", proposalId |-> proposalId]
Routes == {UploadRoute} \cup {ReportRoute(p) : p \in Proposals}

\* the files the upload widgets can hand to their onChange
RfpFiles == {"null", "rfp.pdf"}
RubricFiles == {"null", "rubric.pdf"}
ProposalFiles == {<<>>, <<"a.pdf">>}

\* what createEvaluation can resolve to in result.proposals
EvaluationResults == {<<>>, <<"p-abc", "p-def">>}

\* a component was unmounted: the set-state calls of its pending handlers
\* no longer reach a rendered component
unmounted(reqs) ==
    {[r EXCEPT !.mounted = FALSE, !.interval = 0] : r \in reqs}

\* the id setInterval returns: one that no running timer has and no
\* pending handler holds
setInterval(running, ereqs, rreqs) ==
    LET used == running \cup {r.interval : r \in ereqs \cup rreqs}
    IN  CHOOSE id \in 1..(MaxTimers + MaxRequests) :
            /\ id \notin used
            /\ \A other \in 1..(id - 1) : other \in used

\* room for one more load within the bounds
CanLoad(running, ereqs, rreqs) ==
    /\ Cardinality(running) < MaxTimers
    /\ Cardinality(ereqs) + Cardinality(rreqs) < MaxRequests

\* updateLocalUploads({field: file}), called by the onChange of the three
\* upload widgets of the form view
updateLocalUploads(field, file) ==
    /\ route.page = "upload"
    /\ ~upload_loading
    /\ localUploads' = [localUploads EXCEPT ![field] = file]
    /\ UNCHANGED <<route, currentBatchId, state_proposals, reports, uploadVars,
                   reportVars, timers, interval, ticks,
                   evaluation_reqs, report_reqs>>
    /\ UNCHANGED notPages

isValid(uploads) ==
    /\ uploads.rfp # "null"
    /\ uploads.rubric # "null"
    /\ Len(uploads.proposals) > 0

\* handleEvaluationStart without its check of the selected files
handleEvaluationStart_unchecked ==
    /\ route.page = "upload"
    /\ ~upload_loading
    /\ CanLoad(timers, evaluation_reqs, report_reqs)
    /\ upload_loading' = TRUE
    /\ upload_progress' = 0
    /\ interval' = setInterval(timers, evaluation_reqs, report_reqs)
    /\ ticks' = 0
    /\ timers' = timers \cup {interval'}
    /\ evaluation_reqs' = evaluation_reqs \cup
            {[rfp |-> localUploads.rfp, rubric |-> localUploads.rubric,
              proposals |-> localUploads.proposals,
              interval |-> interval', mounted |-> TRUE]}
    /\ UNCHANGED <<route, globalVars, reportVars, report_reqs>>
    /\ UNCHANGED notPages

\* handleEvaluationStart up to the await of createEvaluation; the button
\* belongs to the form view
handleEvaluationStart ==
    /\ route.page = "upload"
    /\ ~upload_loading
    /\ IF \/ localUploads.rfp = "null"
          \/ localUploads.rubric = "null"
          \/ Len(localUploads.proposals) = 0
       THEN UNCHANGED pagesVars
       ELSE /\ CanLoad(timers, evaluation_reqs, report_reqs)
            /\ upload_loading' = TRUE
            /\ upload_progress' = 0
            /\ interval' = setInterval(timers, evaluation_reqs, report_reqs)
            /\ ticks' = 0
            /\ timers' = timers \cup {interval'}
            /\ evaluation_reqs' = evaluation_reqs \cup
                    {[rfp |-> localUploads.rfp, rubric |-> localUploads.rubric,
                      proposals |-> localUploads.proposals,
                      interval |-> interval', mounted |-> TRUE]}
            /\ UNCHANGED <<route, globalVars, reportVars, report_reqs>>
    /\ UNCHANGED notPages

\* the loading state of the page that is mounted
page_loading ==
    IF route.page = "upload" THEN upload_loading ELSE report_loading

\* the callback of one setInterval timer
tick(id) ==
    /\ id \in timers
    /\ ticks' = IF id = interval /\ page_loading THEN ticks + 1 ELSE ticks
    /\ IF route.page = "upload"
       THEN /\ IF upload_progress >= ProgressFull
               THEN /\ timers' = timers \ {id}
                    /\ upload_progress' = ProgressFull
               ELSE /\ upload_progress' = upload_progress + ProgressStep
                    /\ UNCHANGED timers
            /\ UNCHANGED <<upload_loading, reportVars>>
       ELSE /\ IF report_progress >= ProgressFull
               THEN /\ timers' = timers \ {id}
                    /\ report_progress' = ProgressFull
               ELSE /\ report_progress' = report_progress + ProgressStep
                    /\ UNCHANGED timers
            /\ UNCHANGED <<report_loading, report_error, uploadVars>>
    /\ UNCHANGED <<route, globalVars, interval, evaluation_reqs, report_reqs>>
    /\ UNCHANGED notPages

\* the hash became target: useRouter sets the route, App renders the page
\* of the route (a page of another kind is mounted anew, the report page
\* of another proposal is the same component with a new proposalId), and
\* the effect of ReportPage on [proposalId] runs, loadReport included up
\* to its await of getReport.  ereqs are the pending evaluations.
\* Timers of an unmounted page set the state of no rendered component.
render(target, ereqs) ==
    /\ route' = target
    /\ IF target.page = "upload"
       THEN /\ upload_loading' = FALSE
            /\ upload_progress' = 0
            /\ report_loading' = TRUE
            /\ report_progress' = 0
            /\ report_error' = "null"
            /\ timers' = {}
            /\ interval' = 0
            /\ ticks' = 0
            /\ evaluation_reqs' = ereqs
            /\ report_reqs' = unmounted(report_reqs)
       ELSE LET remount == route.page = "upload"
                report == reports[target.proposalId]
                running == IF remount THEN {} ELSE timers
            IN  /\ upload_loading' = FALSE
                /\ upload_progress' = 0
                /\ evaluation_reqs' = IF remount THEN unmounted(ereqs) ELSE ereqs
                /\ IF report = "undefined"
                   THEN /\ CanLoad(running, evaluation_reqs', report_reqs)
                        /\ report_loading' = TRUE
                        /\ report_progress' = 0
                        /\ report_error' = "null"
                        /\ interval' = setInterval(running, evaluation_reqs',
                                                    report_reqs)
                        /\ ticks' = 0
                        /\ timers' = running \cup {interval'}
                        /\ report_reqs' = report_reqs \cup
                                {[proposalId |-> target.proposalId,
                                  interval |-> interval', mounted |-> TRUE]}
                   ELSE /\ report_loading' = FALSE
                        /\ report_progress' = IF remount THEN 0 ELSE report_progress
                        /\ report_error' = IF remount THEN "null" ELSE report_error
                        /\ timers' = running
                        /\ interval' = IF remount THEN 0 ELSE interval
                        /\ ticks' = 0
                        /\ UNCHANGED report_reqs

\* router.js navigate: sets the hash; the same hash raises no hashchange
navigate(target, ereqs) ==
    IF target = route
    THEN /\ evaluation_reqs' = ereqs
         /\ UNCHANGED <<route, uploadVars, reportVars, timers, interval, ticks,
                        report_reqs>>
    ELSE render(target, ereqs)

\* the user changes the hash: address bar, back and forward, and the
\* buttons of the report page that lead to the upload page
hashchange(target) ==
    /\ target # route
    /\ render(target, evaluation_reqs)
    /\ UNCHANGED globalVars
    /\ UNCHANGED notPages

\* ReportPage handleNavigateProposal, on an entry of the proposal list of
\* the report view
handleNavigateProposal(nextProposalId) ==
    /\ route.page = "report"
    /\ ~report_loading
    /\ report_error = "null"
    /\ reports[route.proposalId] # "undefined"
    /\ \E i \in 1..Len(state_proposals) : state_proposals[i] = nextProposalId
    /\ IF nextProposalId = route.proposalId
       THEN UNCHANGED <<route, uploadVars, reportVars, timers, interval, ticks,
                        evaluation_reqs, report_reqs>>
       ELSE navigate(ReportRoute(nextProposalId), evaluation_reqs)
    /\ UNCHANGED globalVars
    /\ UNCHANGED notPages

\* handleEvaluationStart after createEvaluation resolved
handleEvaluationStart_resume(r, result_proposals) ==
    /\ r \in evaluation_reqs
    /\ currentBatchId' = "batch-1"
    /\ state_proposals' = result_proposals
    /\ IF Len(result_proposals) > 0
       THEN navigate(ReportRoute(result_proposals[1]), evaluation_reqs \ {r})
       ELSE /\ evaluation_reqs' = evaluation_reqs \ {r}
            /\ UNCHANGED <<route, uploadVars, reportVars, timers, interval,
                           ticks, report_reqs>>
    /\ UNCHANGED <<localUploads, reports>>
    /\ UNCHANGED notPages

\* handleEvaluationStart after createEvaluation rejected
handleEvaluationStart_catch(r) ==
    /\ r \in evaluation_reqs
    /\ evaluation_reqs' = evaluation_reqs \ {r}
    /\ IF r.mounted
       THEN /\ upload_loading' = FALSE
            /\ timers' = timers \ {r.interval}
            /\ ticks' = 0
       ELSE UNCHANGED <<upload_loading, timers, ticks>>
    /\ UNCHANGED <<route, globalVars, upload_progress, reportVars, interval,
                   report_reqs>>
    /\ UNCHANGED notPages

\* loadReport after getReport resolved
loadReport_resume(r) ==
    /\ r \in report_reqs
    /\ report_reqs' = report_reqs \ {r}
    /\ reports' = [reports EXCEPT ![r.proposalId] = "report"]
    /\ IF r.mounted
       THEN /\ report_loading' = FALSE
            /\ ticks' = 0
       ELSE UNCHANGED <<report_loading, ticks>>
    /\ UNCHANGED <<route, localUploads, currentBatchId, state_proposals,
                   uploadVars, report_progress, report_error, timers, interval,
                   evaluation_reqs>>
    /\ UNCHANGED notPages

\* loadReport after getReport rejected
loadReport_catch(r) ==
    /\ r \in report_reqs
    /\ report_reqs' = report_reqs \ {r}
    /\ IF r.mounted
       THEN /\ report_error' = "error"
            /\ report_loading' = FALSE
            /\ timers' = timers \ {r.interval}
            /\ ticks' = 0
       ELSE UNCHANGED <<report_error, report_loading, timers, ticks>>
    /\ UNCHANGED <<route, globalVars, uploadVars, report_progress, interval,
                   evaluation_reqs>>
    /\ UNCHANGED notPages

----------------------------------------------------------------------------
(* Smartway frontend: the table renderer and its DataTable *)

\* rows of the largest table result
MaxRows == 25

\* previewLimit and the base of effectivePageSize when the render hint
\* names neither preview_limit nor page_size
previewLimit == 10
basePageSize == 10

\* a table result: rows of two numeric columns
TableRow(i) == [id |-> i, value |-> (i * 7) % 10]
TableData(n) == [i \in 1..n |-> TableRow(i)]
TableDatasets == {TableData(n) : n \in {0, 3, 11, MaxRows}}
Columns == {"id", "value"}

\* the texts typed into the search box
SearchTerms == {"", "1", "7", "x"}

\* String(value).includes(term) for a number below 100 and these terms
Digits(n) == IF n < 10 THEN {n} ELSE {n \div 10, n % 10}
includes(number, term) ==
    CASE term = "" -> TRUE
      [] term = "1" -> 1 \in Digits(number)
      [] term = "7" -> 7 \in Digits(number)
      [] OTHER -> FALSE

\* Array.prototype.slice(start, end)
slice(seq, start, end) ==
    IF start >= Len(seq) THEN <<>>
    ELSE SubSeq(seq, start + 1, IF end < Len(seq) THEN end ELSE Len(seq))

\* TextWithTableRenderer: the rows handed to DataTable and its page size
tableData ==
    IF Len(originalData) = 0 THEN <<>>
    ELSE IF ~showFullTable /\ Len(originalData) > previewLimit
         THEN slice(originalData, 0, previewLimit)
         ELSE originalData

isPreviewing == ~showFullTable /\ Len(originalData) > previewLimit

effectivePageSize ==
    IF isPreviewing
    THEN (IF basePageSize < previewLimit THEN basePageSize ELSE previewLimit)
    ELSE basePageSize

\* DataTable: its memoised values
filteredData ==
    IF searchTerm = "" THEN tableData
    ELSE SelectSeq(tableData,
                   LAMBDA row : \E c \in Columns : includes(row[c], searchTerm))

\* the comparator of sortedData: negative, zero or positive
compareRows(a, b) ==
    LET aVal == a[sortConfig.key]
        bVal == b[sortConfig.key]
    IN  IF aVal < bVal THEN (IF sortConfig.direction = "asc" THEN 0 - 1 ELSE 1)
        ELSE IF aVal > bVal THEN (IF sortConfig.direction = "asc" THEN 1 ELSE 0 - 1)
        ELSE 0

\* Array.prototype.sort with that comparator (stable)
RECURSIVE sortRows(_)
sortRows(rows) ==
    IF Len(rows) <= 1 THEN rows
    ELSE LET sortedInit == sortRows(SubSeq(rows, 1, Len(rows) - 1))
             x == rows[Len(rows)]
             before == {i \in 0..Len(sortedInit) :
                          \A j \in 1..i : compareRows(sortedInit[j], x) <= 0}
             at == CHOOSE i \in before : \A k \in before : k <= i
         IN  SubSeq(sortedInit, 1, at) \o <<x>>
                \o SubSeq(sortedInit, at + 1, Len(sortedInit))

sortedData ==
    IF sortConfig.key = "null" THEN filteredData ELSE sortRows(filteredData)

paginatedData ==
    slice(sortedData, currentPage * effectivePageSize,
          currentPage * effectivePageSize + effectivePageSize)

\* Math.ceil(sortedData.length / pageSize)
totalPages ==
    (Len(sortedData) + effectivePageSize - 1) \div effectivePageSize

\* DataTable is rendered, with its table, when there are rows to show
DataTableShown == Len(tableData) > 0

\* the onChange of the search box
DataTable_search(term) ==
    /\ DataTableShown
    /\ searchTerm' = term
    /\ currentPage' = 0
    /\ UNCHANGED <<originalData, showFullTable, sortConfig>>
    /\ UNCHANGED notTable

\* handleSort, on a column header
handleSort(key) ==
    /\ DataTableShown
    /\ sortConfig' = [key |-> key,
                      direction |-> IF sortConfig.key = key
                                       /\ sortConfig.direction = "asc"
                                    THEN "desc" ELSE "asc"]
    /\ UNCHANGED <<originalData, showFullTable, searchTerm, currentPage>>
    /\ UNCHANGED notTable

\* the Previous button of the pagination row
DataTable_previous ==
    /\ DataTableShown
    /\ totalPages > 1
    /\ currentPage # 0
    /\ currentPage' = IF currentPage - 1 > 0 THEN currentPage - 1 ELSE 0
    /\ UNCHANGED <<originalData, showFullTable, searchTerm, sortConfig>>
    /\ UNCHANGED notTable

\* the Next button of the pagination row
DataTable_next ==
    /\ DataTableShown
    /\ totalPages > 1
    /\ currentPage # totalPages - 1
    /\ currentPage' = IF currentPage + 1 < totalPages - 1
                      THEN currentPage + 1 ELSE totalPages - 1
    /\ UNCHANGED <<originalData, showFullTable, searchTerm, sortConfig>>
    /\ UNCHANGED notTable

\* the two buttons under the table: show every row, fold to the preview;
\* DataTable stays the same component and keeps its state
setShowFullTable(full) ==
    /\ Len(originalData) > 0
    /\ IF full THEN isPreviewing
               ELSE ~isPreviewing /\ Len(originalData) > previewLimit
    /\ showFullTable' = full
    /\ UNCHANGED <<originalData, searchTerm, currentPage, sortConfig>>
    /\ UNCHANGED notTable

----------------------------------------------------------------------------

\* every component as constructed, whatever the dataset on disk
SmartwayConstructed ==
    /\ pc = "idle"
    /\ client \in {"panel", "direct"}
    /\ question = ""
    /\ st = initial_state
    /\ decision = NoDecision
    /\ next_node = ""
    /\ exc = ""
    /\ llm_calls = NoCalls
    /\ llm_replies = NoReplies
    /\ ran = <<>>
    /\ response = NoResponse
    /\ messages = <<>>
    /\ input = ""
    /\ loading = FALSE
    /\ panel_req = NoRequest
    /\ highlightedEdge = HNull
    /\ routeData = RNull
    /\ pageLoading = TRUE
    /\ flowEdges = <<>>
    /\ enrichedEdges = <<>>

ChatConstructed ==
    /\ chats = [p \in Proposals |-> <<>>]
    /\ chatOpenFor = NoProposal
    /\ chat_input = ""
    /\ chat_sending = FALSE
    /\ chat_reqs = {}

PagesConstructed ==
    /\ route = UploadRoute
    /\ localUploads = [rfp |-> "null", rubric |-> "null", proposals |-> <<>>]
    /\ currentBatchId = "null"
    /\ state_proposals = <<>>
    /\ reports = [p \in Proposals |-> "undefined"]
    /\ upload_loading = FALSE
    /\ upload_progress = 0
    /\ report_loading = TRUE
    /\ report_progress = 0
    /\ report_error = "null"
    /\ timers = {}
    /\ interval = 0
    /\ ticks = 0
    /\ evaluation_reqs = {}
    /\ report_reqs = {}

\* no table result is on display
TableConstructed ==
    /\ originalData = <<>>
    /\ showFullTable = FALSE
    /\ searchTerm = ""
    /\ currentPage = 0
    /\ sortConfig = [key |-> "null", direction |-> "asc"]

Constructed ==
    /\ SmartwayConstructed
    /\ ChatConstructed
    /\ PagesConstructed
    /\ TableConstructed

Init ==
    /\ graph_file \in GraphFiles
    /\ Constructed

Next ==
    \/ \E q \in Questions, c \in {"panel", "direct"} : analyze(q, c)
    \/ intent_analyzer
    \/ add_conditional_edges
    \/ get_graph_data
    \/ select_edge
    \/ get_bus_data
    \/ chart_type_selector
    \/ generate_analytic
    \/ fallback_response
    \/ analyze_return
    \/ analyze_except
    \/ direct_client_receives
    \/ fetchData
    \/ \E text \in Questions : setInput(text)
    \/ handleSend
    \/ \E key \in Keys : handleKeyDown(key)
    \/ handleSend_resume
    \/ handleSend_catch

Spec == Init /\ [][Next]_vars

\* what the server and the event loop of the browser do unprompted once a
\* request is sent: the route and the graph nodes run, the response (or
\* the failure of fetch) reaches the awaiting handleSend
SendProgress ==
    \/ \E q \in Questions : analyze(q, "panel")
    \/ intent_analyzer
    \/ add_conditional_edges
    \/ get_graph_data
    \/ select_edge
    \/ get_bus_data
    \/ chart_type_selector
    \/ generate_analytic
    \/ fallback_response
    \/ analyze_return
    \/ analyze_except
    \/ handleSend_resume
    \/ handleSend_catch

SpecLive == Spec /\ WF_vars(SendProgress)

NextChat ==
    \/ \E proposalId \in Proposals : openChat(proposalId)
    \/ closeChat
    \/ \E text \in ChatInputs : ChatDrawer_setInput(text)
    \/ ChatDrawer_handleSend
    \/ \E r \in chat_reqs, ok \in BOOLEAN : ChatDrawer_handleSend_resume(r, ok)

SpecChat == Init /\ [][NextChat]_vars

\* the page loading a route dataset
InitRoute ==
    /\ graph_file \in RouteGraphFiles
    /\ Constructed

NextRoute == fetchData

SpecRoute == InitRoute /\ [][NextRoute]_vars

\* the upload page of the LaLaLlama frontend, up to the report page it
\* navigates to
NextUpload ==
    \/ \E file \in RfpFiles : updateLocalUploads("rfp", file)
    \/ \E file \in RubricFiles : updateLocalUploads("rubric", file)
    \/ \E files \in ProposalFiles : updateLocalUploads("proposals", files)
    \/ handleEvaluationStart
    \/ \E id \in timers : tick(id)
    \/ \E r \in evaluation_reqs, result_proposals \in EvaluationResults :
          handleEvaluationStart_resume(r, result_proposals)
    \/ \E r \in evaluation_reqs : handleEvaluationStart_catch(r)

SpecUpload == Init /\ [][NextUpload]_vars

\* the report page of the LaLaLlama frontend, from the moment an evaluation
\* has navigated to the report of its first proposal
InitReport ==
    /\ graph_file = GraphOk
    /\ SmartwayConstructed
    /\ ChatConstructed
    /\ TableConstructed
    /\ route = ReportRoute("p-abc")
    /\ localUploads = [rfp |-> "rfp.pdf", rubric |-> "rubric.pdf",
                       proposals |-> <<"a.pdf">>]
    /\ currentBatchId = "batch-1"
    /\ state_proposals = <<"p-abc", "p-def">>
    /\ reports = [p \in Proposals |-> "undefined"]
    /\ upload_loading = FALSE
    /\ upload_progress = 0
    /\ report_loading = TRUE
    /\ report_progress = 0
    /\ report_error = "null"
    /\ timers = {1}
    /\ interval = 1
    /\ ticks = 0
    /\ evaluation_reqs = {}
    /\ report_reqs = {[proposalId |-> "p-abc", interval |-> 1, mounted |-> TRUE]}

NextReport ==
    \/ \E nextProposalId \in Proposals : handleNavigateProposal(nextProposalId)
    \/ \E target \in Routes : hashchange(target)
    \/ \E id \in timers : tick(id)
    \/ \E r \in report_reqs : loadReport_resume(r)
    \/ \E r \in report_reqs : loadReport_catch(r)

SpecReport == InitReport /\ [][NextReport]_vars

\* the table renderer showing one table result
InitTable ==
    /\ graph_file = GraphOk
    /\ SmartwayConstructed
    /\ ChatConstructed
    /\ PagesConstructed
    /\ originalData \in TableDatasets
    /\ showFullTable = FALSE
    /\ searchTerm = ""
    /\ currentPage = 0
    /\ sortConfig = [key |-> "null", direction |-> "asc"]

NextTable ==
    \/ \E term \in SearchTerms : DataTable_search(term)
    \/ \E key \in Columns : handleSort(key)
    \/ DataTable_previous
    \/ DataTable_next
    \/ \E full \in BOOLEAN : setShowFullTable(full)

SpecTable == InitTable /\ [][NextTable]_vars


----------------------------------------------------------------------------
(* Properties *)

Last(seq) == seq[Len(seq)]

NonEmptyText(x) == x.t = "str" /\ x.v # ""

\* the intent classifier itself raised (the router did not run yet)
ClassifierRaised ==
    pc = "raised" /\ ran = <<"intent_analyzer">> /\ st.intent_type = Absent

\* the values of intent_type the dispatcher is specified for
RouterInputs ==
    {Absent} \cup {Str(l) : l \in IntentLabels \cup {"greeting", ""}}

\* conditional_router has been applied to the state of the running request
RouterReturned ==
    /\ pc \notin {"idle", "intent_analyzer", "conditional_router"}
    /\ st.intent_type # Absent

\* C1: for the three known labels, any other string and a missing value,
\* conditional_router returns get_graph_data, get_bus_data or
\* fallback_response and raises nothing; every value other than
\* find_highlight and analysis gives fallback_response.
C1_RouterTotal ==
    /\ \A i \in RouterInputs :
         LET r == conditional_router([initial_state EXCEPT !.intent_type = i]) IN
         /\ r.exc = ""
         /\ r.next \in PathIds
         /\ (i \notin {Str("find_highlight"), Str("analysis")}
               => r.next = "fallback_response")
    /\ (RouterReturned /\ st.intent_type \in RouterInputs) =>
         /\ next_node \in PathIds
         /\ (st.intent_type \notin {Str("find_highlight"), Str("analysis")}
               => next_node = "fallback_response")

C1_Witness ==
    /\ pc = "fallback_response"
    /\ st.intent_type = Str("greeting")
    /\ next_node = "fallback_response"

\* C2: when the classifier's completion call throws, the request still
\* completes with a fallback envelope with a non-empty narrative, and no
\* exception escapes analyze.
C2_ClassifierTimeoutGivesFallbackEnvelope ==
    (pc = "responded" /\ llm_replies.intent_analyzer = LLM_ERROR) =>
        /\ response.status = 200
        /\ response.intent_type = "fallback"
        /\ NonEmptyText(response.analysis_result)

\* C3: whatever text the completion service returns, intent_analyzer
\* returns a decision and never raises.
C3_ClassifierNeverRaisesOnReply ==
    (llm_replies.intent_analyzer \in IntentReplies) => ~ClassifierRaised

NonJsonIntentTexts == {"not json", " not json "}

C5_LabelInClosedSet ==
    /\ (st.intent_type # Absent =>
          st.intent_type \in {Str(l) : l \in IntentLabels})
    /\ (response.status = 200 => response.intent_type \in IntentLabels)

\* C6: a request whose question is empty after trimming is rejected before
\* the classifier's completion service is called.
C6_EmptyQuestionNeverReachesClassifier ==
    (pc # "idle" /\ strip(question) = "") =>
        /\ llm_calls.intent_analyzer = 0
        /\ ran = <<>>

ProcessorFailed ==
    \/ /\ pc \in {"raised", "responded"}
       /\ Len(ran) > 1
       /\ Last(ran) \in {"select_edge", "generate_analytic"}
       /\ exc \in {"JSONDecodeError", "KeyError", "TypeError"}
    \/ /\ pc \in {"END", "responded"}
       /\ Last(ran) = "select_edge"
       /\ st.highlight_edge.t = "null"

\* C7: when a path processor fails after dispatch, the request goes on to
\* the fallback processor and completes with a fallback envelope, with no
\* error raised to the caller.
C7_ProcessorFailureGoesToFallback ==
    (ProcessorFailed /\ pc = "responded") =>
        /\ response.status = 200
        /\ response.intent_type = "fallback"
        /\ NonEmptyText(response.analysis_result)

EdgeIds(data) == {e.id : e \in Range(data.edges)}

\* C8: a highlight returned by the highlight path names an edge of the graph
\* dataset the path was given.
C8_HighlightEdgeExists ==
    /\ (st.highlight_edge.t = "obj" =>
          st.highlight_edge.id \in EdgeIds(st.graph_data))
    /\ (highlightedEdge.t = "obj" =>
          highlightedEdge.id \in EdgeIds(routeData))

\* C9: a graph dataset with an edge whose source or target is not a node id
\* is never handed on as loaded data, neither to the highlight path nor to
\* the visualization.
C9_LoadedGraphHasReferentialIntegrity ==
    /\ (st.graph_data.t = "data" => validateNodeEdges(st.graph_data))
    /\ (routeData.t = "data" => validateNodeEdges(routeData))

\* C10: a chart-type reply outside the permitted chart types degrades to
\* text_summary; the unknown value is not carried on and raises nothing.
C10_UnknownChartTypeDegradesToText ==
    /\ (st.chart_type # Absent => st.chart_type.v \in ChartTypes)
    /\ ~(/\ pc = "raised"
         /\ Last(ran) = "generate_analytic"
         /\ llm_calls.generate_analytic = 0)

\* generate_analytic returned (no exception) in the running request
GenerateReturned ==
    /\ pc \in {"END", "responded"}
    /\ exc = ""
    /\ Last(ran) = "generate_analytic"

\* C11: a generated payload that lacks a field required by the chosen chart
\* type is rejected and never returned as the analysis result.
C11_MissingFieldNeverReturned ==
    (GenerateReturned /\ st.chart_data.t = "obj") =>
        output_format_keys(st.chart_type.v) \subseteq st.chart_data.keys

\* C12: in every analysis envelope returned, chart_data is null only if
\* chart_type is text_summary.
C12_NullChartDataOnlyForText ==
    (/\ response.status = 200
     /\ response.intent_type = "analysis"
     /\ response.chart_data.t = "null") =>
        response.chart_type = Str("text_summary")

\* C13: the populated fields of an envelope are fixed by intent_type:
\* find_highlight has highlight_edge and analysis_result and neither
\* chart_data nor chart_type; analysis has chart_type, analysis_result and
\* chart_data (null only with text_summary) and no highlight_edge; any other
\* envelope has analysis_result only.
C13_EnvelopeFieldsFixedByIntent ==
    response.status = 200 =>
        CASE response.intent_type = "find_highlight" ->
               /\ response.highlight_edge.t = "obj"
               /\ response.analysis_result # None
               /\ response.chart_data.t = "null"
               /\ response.chart_type = None
          [] response.intent_type = "analysis" ->
               /\ response.chart_type # None
               /\ (response.chart_data.t = "obj"
                     \/ response.chart_type = Str("text_summary"))
               /\ response.analysis_result # None
               /\ response.highlight_edge.t = "null"
          [] OTHER ->
               /\ response.analysis_result # None
               /\ response.highlight_edge.t = "null"
               /\ response.chart_data.t = "null"
               /\ response.chart_type = None

IsPrefix(a, b) ==
    /\ Len(a) <= Len(b)
    /\ \A i \in 1..Len(a) : a[i] = b[i]

StageNames ==
    {"intent_analyzer", "get_graph_data", "select_edge", "get_bus_data",
     "chart_type_selector", "generate_analytic", "fallback_response"}

\* the stages of a request in the order the claim gives, by selected path
Pipeline(path) ==
    <<"intent_analyzer">> \o
    CASE path = "get_graph_data" -> <<"get_graph_data", "select_edge">>
      [] path = "get_bus_data" ->
           <<"get_bus_data", "chart_type_selector", "generate_analytic">>
      [] path = "fallback_response" -> <<"fallback_response">>
      [] OTHER -> <<>>

\* C14: a request is one sequential pipeline: intent_analyzer runs first and
\* once, the dispatcher selects one path, only that path's stages run, in
\* their fixed order and each once, and when the graph ends the path is
\* complete; no completion call is made twice.
C14_OneSequentialPipeline ==
    /\ IsPrefix(ran, Pipeline(next_node))
    /\ (pc \in StageNames =>
          /\ Len(ran) < Len(Pipeline(next_node))
          /\ pc = Pipeline(next_node)[Len(ran) + 1])
    /\ (pc = "conditional_router" => ran = <<"intent_analyzer">>)
    /\ (next_node # "" => next_node \in PathIds)
    /\ (pc = "END" => ran = Pipeline(next_node))
    /\ (pc = "idle" => ran = <<>>)
    /\ \A n \in DOMAIN llm_calls : llm_calls[n] <= 1

C14_Witness ==
    /\ pc = "END"
    /\ next_node = "get_graph_data"
    /\ ran = <<"intent_analyzer", "get_graph_data", "select_edge">>
    /\ llm_calls.intent_analyzer = 1

\* C15: every request that takes the fallback path succeeds, with a result
\* whose chart type is text_summary and whose narrative is non-empty.
C15_FallbackSucceedsWithTextResult ==
    (pc = "responded" /\ Last(ran) = "fallback_response") =>
        /\ response.status = 200
        /\ response.chart_type = Str("text_summary")
        /\ NonEmptyText(response.analysis_result)

\* C16: a chat panel has at most one request in flight: loading is set
\* exactly while a request awaits its response, and a step taken while the
\* panel is and stays loading adds no message and starts no new request.
C16_OneRequestInFlight ==
    /\ [](loading <=> panel_req.state # "none")
    /\ [][(loading /\ loading') =>
             /\ messages' = messages
             /\ panel_req'.question = panel_req.question
             /\ panel_req'.state \in {panel_req.state, "accepted"}]_vars

\* a send is attempted (text typed) while the request is with the backend
C16_Witness ==
    /\ loading
    /\ strip(input) # ""
    /\ panel_req.state = "accepted"
    /\ pc = "select_edge"
    /\ Len(messages) = 1

\* a step of the analytics graph or of analyze, as opposed to the panel's
BackendStep == pc # "responded" /\ pc' # pc

\* C17: the panel's history only grows by appending one entry at a time, a
\* step of the routing core leaves it unchanged, and within a request the
\* graph state's messages only grow by appending too.
C17_HistoryAppendOnly ==
    [][/\ IsPrefix(messages, messages')
       /\ Len(messages') <= Len(messages) + 1
       /\ (BackendStep => messages' = messages)
       /\ ((BackendStep /\ pc # "idle") =>
             /\ IsPrefix(st.messages, st'.messages)
             /\ st.messages[1] = "human")]_vars

C17_Witness ==
    /\ Len(messages) = 3
    /\ messages[1].role = "user"
    /\ messages[2].role = "assistant"
    /\ pc = "END"
    /\ Len(st.messages) = 3

\* C18: an analysis result whose chart data is null is drawn, for every
\* chart type, as its narrative text alone.
C18_NullChartDataShowsNarrativeOnly ==
    \A i \in DOMAIN messages :
        (/\ messages[i].role = "assistant"
         /\ messages[i].intent_type = "analysis"
         /\ ~Truthy(messages[i].chart_data)) =>
            messages_map(messages[i]) = {messages[i].content}

QuestionsUpTo(chat, n) ==
    Cardinality({i \in 1..n : chat[i].role = "user"})

\* the question a pending call was made for is the k-th of its chat
QuestionOrder(r) == QuestionsUpTo(chats[r.proposalId], r.at)

\* C20: the k-th user question of a proposal's chat is sent with question
\* count k-1, and the reply appended for it, unless the call failed, is
\* chat.send-p-abc for k = 1, chat.send-p-def for k = 2 and chat.send-p-ghi
\* for every k >= 3.
C20_AnswerByQuestionOrder ==
    /\ [](\A r \in chat_reqs :
            /\ r.at \in DOMAIN chats[r.proposalId]
            /\ chats[r.proposalId][r.at] = [role |-> "user", text |-> r.text]
            /\ r.userQuestionCount = QuestionOrder(r) - 1)
    /\ [][\A r \in chat_reqs :
            (\A q \in chat_reqs' : <<q.proposalId, q.at>> # <<r.proposalId, r.at>>)
            => Last(chats'[r.proposalId]) \in
                {[role |-> "assistant",
                  text |-> CASE QuestionOrder(r) = 1 -> chat_send_abc
                             [] QuestionOrder(r) = 2 -> chat_send_def
                             [] OTHER -> chat_send_ghi],
                 [role |-> "assistant", text |-> chat_send_failed]}]_vars

\* the fourth question of a chat has got its answer while the second one
\* is still waiting for its own
C20_Witness ==
    /\ QuestionsUpTo(chats["p-abc"], Len(chats["p-abc"])) = 4
    /\ Last(chats["p-abc"]) = [role |-> "assistant", text |-> chat_send_ghi]
    /\ \E q \in chat_reqs :
          q.proposalId = "p-abc" /\ q.userQuestionCount = 1

\* the stops of a route, and the signed count of a stop
RouteStops(nodes, routeId) == {n \in Range(nodes) : n.parentNode = routeId}

SignedCount(n) ==
    CASE n.action = "board" -> n.count
      [] n.action = "alight" -> 0 - n.count
      [] OTHER -> 0

RECURSIVE SumSignedCounts(_)
SumSignedCounts(S) ==
    IF S = {} THEN 0
    ELSE LET n == CHOOSE n \in S : TRUE
         IN  SignedCount(n) + SumSignedCounts(S \ {n})

\* the running total of a route up to and including stop s
RunningTotal(nodes, s) ==
    SumSignedCounts({n \in RouteStops(nodes, s.parentNode) :
                        stop_number(n.id) <= stop_number(s.id)})

\* t is the stop after s on the route of s, by the numeric suffix
NextStop(nodes, s, t) ==
    /\ s.parentNode # ""
    /\ t \in RouteStops(nodes, s.parentNode)
    /\ stop_number(s.id) < stop_number(t.id)
    /\ ~\E m \in RouteStops(nodes, s.parentNode) :
          stop_number(s.id) < stop_number(m.id)
          /\ stop_number(m.id) < stop_number(t.id)

\* on every route the numeric suffixes of the stops differ
DistinctSuffixes(nodes) ==
    \A n, m \in Range(nodes) :
        (n.parentNode # "" /\ n.parentNode = m.parentNode
           /\ stop_number(n.id) = stop_number(m.id)) => n = m

\* C21: on each route, ordered by the numeric suffix of the stop ids, the
\* passenger count of the edge from a stop to the next stop is the running
\* total of the stops up to and including the source (boarding counts added,
\* alighting counts subtracted); every such edge of the dataset gets one.
C21_EdgeCountIsRunningTotal ==
    (routeData.t = "data" /\ DistinctSuffixes(routeData.nodes)) =>
        /\ \A i \in DOMAIN enrichedEdges :
              \E s, t \in Range(routeData.nodes) :
                 /\ s.id = enrichedEdges[i].source
                 /\ t.id = enrichedEdges[i].target
                 /\ NextStop(routeData.nodes, s, t)
                 /\ enrichedEdges[i].currentPassengers =
                       RunningTotal(routeData.nodes, s)
        /\ \A s, t \in Range(routeData.nodes) :
              (/\ NextStop(routeData.nodes, s, t)
               /\ \E e \in Range(routeData.edges) :
                     e.source = s.id /\ e.target = t.id) =>
                 \E i \in DOMAIN enrichedEdges :
                    /\ enrichedEdges[i].source = s.id
                    /\ enrichedEdges[i].target = t.id

\* stops listed out of order, the second alighting: the edge a::2 -> a::10
\* carries 1 - 2, the edge b::1 -> b::2 carries 8
C21_Witness ==
    /\ routeData.t = "data"
    /\ routeData.nodes[3].id = "a::10"
    /\ routeData.nodes[4].id = "a::2"
    /\ \E i, j \in DOMAIN enrichedEdges :
          /\ enrichedEdges[i].id = "e2"
          /\ enrichedEdges[i].currentPassengers = 0 - 1
          /\ enrichedEdges[j].id = "e3"
          /\ enrichedEdges[j].currentPassengers = 8

\* the progress value of the page that is mounted
page_progress ==
    IF route.page = "upload" THEN upload_progress ELSE report_progress

Min(a, b) == IF a < b THEN a ELSE b

\* C22: during a load, after k callbacks of the one-second timer of that
\* load the progress value is min(100, 5 * k): 100 is reached only after 20
\* of them and never exceeded.
C22_ProgressIsFiveTimesTicks ==
    page_loading => page_progress = Min(100, 5 * ticks)

\* the three kinds of file of the upload form are selected
FilesSelected ==
    /\ localUploads.rfp # "null"
    /\ localUploads.rubric # "null"
    /\ localUploads.proposals # <<>>

\* C23: createEvaluation is called only with an RFP file, a rubric file and
\* at least one proposal file selected; an attempt to start without them
\* makes no API call, starts no progress timer and leaves the page out of
\* the loading state.
C23_EvaluationOnlyWithAllFiles ==
    /\ [](\A r \in evaluation_reqs :
             r.rfp # "null" /\ r.rubric # "null" /\ r.proposals # <<>>)
    /\ [][(route.page = "upload" /\ ~upload_loading /\ ~FilesSelected) =>
             /\ evaluation_reqs' \subseteq evaluation_reqs
             /\ timers' \subseteq timers
             /\ ~upload_loading']_vars

\* an evaluation was started with the three kinds of file selected
C23_Witness ==
    /\ route.page = "upload"
    /\ upload_loading
    /\ timers # {}
    /\ \E r \in evaluation_reqs : r.mounted /\ r.proposals = <<"a.pdf">>

\* C25: on the report page the loading state is off only when the report of
\* the proposal shown is available or an error is set; the answer for a
\* proposal shown earlier does not end the loading state of the proposal
\* shown now.
C25_LoadingOffOnlyWithReportOrError ==
    (route.page = "report" /\ ~report_loading) =>
        \/ reports[route.proposalId] # "undefined"
        \/ report_error # "null"

\* C26: once createEvaluation has answered, the upload page is out of its
\* loading state whatever the answer was: it has navigated to a report when
\* the result contains proposals, and shows the upload form again on an
\* error and on a result without proposals.
C26_UploadPageLeavesLoading ==
    (route.page = "upload" /\ upload_loading) =>
        \E r \in evaluation_reqs : r.mounted

\* C28: at most one progress timer runs for the mounted page at any time.
C28_AtMostOneTimer ==
    Cardinality(timers) <= 1

\* C27: whatever next-page, previous-page, sort, search and show-full /
\* fold actions were taken on a data table, the current page index is
\* within the existing pages (0 <= page < max(1, page count)), so rows that
\* are there to show are never displayed as an empty page.
C27_PageIndexInRange ==
    DataTableShown =>
        /\ 0 <= currentPage
        /\ currentPage < (IF totalPages > 1 THEN totalPages ELSE 1)
        /\ (Len(sortedData) > 0 => Len(paginatedData) > 0)

\* the handleSend calls that end in this step
AnsweredCalls ==
    {r \in chat_reqs :
        ~\E q \in chat_reqs' : q.proposalId = r.proposalId /\ q.at = r.at}

\* C29: a chat reply or error notice is appended to the chat of the
\* proposal the question was asked about, also when the drawer was closed
\* or reopened for another proposal while the request was in flight, and an
\* append to one proposal's chat leaves every other proposal's chat
\* unchanged.
C29_ReplyGoesToAskedProposal ==
    [][\A p \in Proposals :
          chats'[p] # chats[p] =>
             /\ Len(chats'[p]) = Len(chats[p]) + 1
             /\ SubSeq(chats'[p], 1, Len(chats[p])) = chats[p]
             /\ \A q \in Proposals \ {p} : chats'[q] = chats[q]
             /\ Last(chats'[p]).role = "assistant" =>
                   \E r \in AnsweredCalls :
                      /\ r.proposalId = p
                      /\ chats[p][r.at] = [role |-> "user", text |-> r.text]
                      /\ Last(chats'[p]).text \in
                            {sendChatMessage(r.userQuestionCount),
                             chat_send_failed}]_vars

\* the drawer shows p-def, nothing was asked there, and the second question
\* about p-abc has its answer while the first, asked from a drawer closed
\* since, is still in flight
C29_Witness ==
    /\ chatOpenFor = "p-def"
    /\ chats["p-def"] = <<>>
    /\ Len(chats["p-abc"]) = 3
    /\ Last(chats["p-abc"]).role = "assistant"
    /\ \E r \in chat_reqs : r.proposalId = "p-abc" /\ r.at = 1 /\ ~r.mounted

\* C30: a table result whose chart data has the shape the analysis path
\* produces for tables, {columns, rows}, is displayed as a table of those
\* rows, not as the no-data placeholder.
C30_TableResultShownAsTable ==
    \A i \in DOMAIN messages :
        (/\ messages[i].role = "assistant"
         /\ messages[i].intent_type = "analysis"
         /\ messages[i].chart_type = "table"
         /\ messages[i].chart_data = CObj({"columns", "rows"})) =>
            /\ "DataTable" \in messages_map(messages[i])
            /\ "no data to show" \notin messages_map(messages[i])

\* C24: every accepted send of the analytics chat panel completes: exactly
\* one assistant message (the reply, or the error notice on failure) is
\* appended after the user message of that send, and the loading flag
\* returns to false so that a later send is possible.
C24_SendCompletes ==
    /\ loading ~> (~loading /\ panel_req = NoRequest)
    /\ [][(loading /\ ~loading') =>
             /\ Last(messages).role = "user"
             /\ Len(messages') = Len(messages) + 1
             /\ IsPrefix(messages, messages')
             /\ Last(messages').role = "assistant"]_vars
    /\ [][(loading /\ loading') => messages' = messages]_vars

\* the first send has its answer and a later send was accepted
C24_Witness ==
    /\ loading
    /\ Len(messages) = 3
    /\ messages[2].role = "assistant"
    /\ messages[3].role = "user"

====
